---- MODULE Spec2Model ----
(***************************************************************************)
(* The review engine of the parts marketplace: ReviewService over the      *)
(* `reviews` table (entity Review) and the numReviews column of the seller *)
(* profiles.  Every service method is an async function: each `await` of a *)
(* repository call is one step against the store, and calls made by        *)
(* different requests interleave between those steps.                      *)
(*                                                                         *)
(* The user and seller-profile tables are never written by the service, so *)
(* they are fixed tables here; the numReviews column, which the service    *)
(* does write, is the variable numReviews.  The updatedAt column is left   *)
(* out: the service never reads it.                                        *)
(***************************************************************************)
EXTENDS Integers, Sequences, FiniteSets, TLC

\* ------------------------------------------------------------------ bounds
NumProcs == 2      \* requests that may be in flight at once
MaxCalls == 3      \* calls started in one behaviour (also the clock's range)
MaxReviews == 2    \* review rows ever inserted by createReview

Procs == 1..NumProcs

\* ------------------------------------------------------- values and inputs
NoId == 0                  \* a NULL / undefined reference or id
NullStr == "NULL"          \* a NULL string column
NoReply == <<>>            \* reply IS NULL; a reply is <<[comment, createdAt]>>

\* users: 1 buyer only, 2 seller only, 3 both, 4 no profile; 5 is no user.
\* Profile ids come from their own sequences, so they differ from user ids.
Users ==
    (1 :> [id |-> 1, buyerProfile |-> 1, sellerProfile |-> NoId]) @@
    (2 :> [id |-> 2, buyerProfile |-> NoId, sellerProfile |-> 1]) @@
    (3 :> [id |-> 3, buyerProfile |-> 2, sellerProfile |-> 2]) @@
    (4 :> [id |-> 4, buyerProfile |-> NoId, sellerProfile |-> NoId])

SellerProfiles ==
    { [id |-> Users[u].sellerProfile, userId |-> u] :
        u \in {v \in DOMAIN Users : Users[v].sellerProfile # NoId} }

SellerProfileIds == { s.id : s \in SellerProfiles }

ReviewerIdInputs == 1..5         \* reviewerId of createReview
SellerIdInputs == {2, 3, 5}      \* sellerId of createReview: two sellers, one unknown
RatingInputs == {0, 1, 5, 6}     \* below, lowest, highest, above
ReviewComments == {"good"}
ReplyComments == {"thanks", "sorry"}
Reasons == {"spam", "abuse"}
ReviewIdInputs == 1..MaxReviews
ReplierIdInputs == {1, 2}        \* sellerId of addReplyToReview
ReporterIdInputs == {1, 2}       \* reporterId of reportReview
DeleterIdInputs == {1, 3, 4}     \* userId of deleteReview
StatsIdInputs == {1, 2, 3}       \* sellerId of getSellerStats
ListIdInputs == {1, 2}           \* sellerId of getSellerReviews
PageInputs == {0, 1, 2}          \* page of getSellerReviews
LimitInputs == {0, 1, 2}         \* limit of getSellerReviews
NamedIds == SellerIdInputs \cup StatsIdInputs

\* error messages thrown by the service
ErrRating == "Rating must be between 1 and 5"
ErrSeller == "Seller not found"
ErrUser == "User not found"
ErrProfile == "User must have either a buyer or seller profile to leave a review"
ErrReview == "Review not found"
ErrNotSeller == "Only the seller can reply to this review"
ErrHasReply == "Review already has a reply"
ErrNotReviewer == "Only the reviewer can delete this review"
ErrType == "TypeError: Cannot read properties of null (reading 'id')"
\* thrown by the store, not by the service: a negative skip reaches the query
ErrQuery == "QueryFailedError: OFFSET must not be negative"

VARIABLES
    reviews,      \* the reviews table: id -> row
    nextId,       \* the sequence behind PrimaryGeneratedColumn
    numReviews,   \* SellerProfile.numReviews, per seller profile id
    now,          \* the clock; it ticks when a call starts
    pc,           \* per request: the await it is suspended at, or "idle"
    call,         \* per request: the call it is executing and its arguments
    local,        \* per request: the entity it holds in memory
    last,         \* the call that returned or threw most recently, and its outcome
    created,      \* history: per sellerId named, successful createReview calls
    authors,      \* history: review id -> the reviewer createReview resolved
    removals,     \* history: rows removed by deleteReview so far
    deleted       \* history: review ids a deleteReview returned successfully for

vars == <<reviews, nextId, numReviews, now, pc, call, local, last,
          created, authors, removals, deleted>>

\* ----------------------------------------------------------------- records
NoSeller == [id |-> NoId, userId |-> NoId, numReviews |-> 0]
NoUser == [id |-> NoId, buyerProfile |-> NoId, sellerProfile |-> NoId]

NoEntity ==
    [id |-> NoId, buyer |-> NoId, seller |-> NoSeller, rating |-> 0,
     comment |-> NullStr, reply |-> NoReply, reported |-> FALSE,
     reportReason |-> NullStr, reporterId |-> NoId, createdAt |-> 0,
     buyerReviewer |-> NoId, sellerReviewer |-> NoId]

NoCall ==
    [op |-> "none", sellerId |-> NoId, reviewerId |-> NoId, rating |-> 0,
     comment |-> NullStr, reviewId |-> NoId, userId |-> NoId,
     reason |-> NullStr, page |-> 0, limit |-> 0, startedAt |-> 0]

NoStats == [averageRating |-> <<0, 1>>, totalReviews |-> 0]

NoResult ==
    [status |-> "none", error |-> "", id |-> NoId, stats |-> NoStats,
     reviews |-> <<>>, total |-> 0, hasMore |-> FALSE]

Failed(msg) == [NoResult EXCEPT !.status = "error", !.error = msg]

Ok(id) == [NoResult EXCEPT !.status = "ok", !.id = id]

\* ------------------------------------------------------------------- store
RECURSIVE SumRatings(_, _)
SumRatings(rows, ids) ==
    IF ids = {} THEN 0
    ELSE LET i == CHOOSE x \in ids : TRUE
         IN rows[i].rating + SumRatings(rows, ids \ {i})

\* rows whose seller foreign key is sellerId
RowsOfSeller(rows, sellerId) == { i \in DOMAIN rows : rows[i].seller = sellerId }

\* sellerRepository.findOne({ where: { userId: sellerId } })
FindSellerByUserId(sellerId) ==
    LET m == { s \in SellerProfiles : s.userId = sellerId }
    IN IF m = {} THEN NoSeller
       ELSE LET s == CHOOSE x \in m : TRUE
            IN [id |-> s.id, userId |-> s.userId, numReviews |-> numReviews[s.id]]

\* the seller relation of a loaded review
LoadSeller(id) ==
    LET m == { s \in SellerProfiles : s.id = id }
    IN IF m = {} THEN NoSeller
       ELSE LET s == CHOOSE x \in m : TRUE
            IN [id |-> s.id, userId |-> s.userId, numReviews |-> numReviews[s.id]]

\* userRepository.findOne({ where: { id }, relations: [buyerProfile, sellerProfile] })
FindUser(reviewerId) ==
    IF reviewerId \in DOMAIN Users THEN Users[reviewerId] ELSE NoUser

\* reviewRepository.findOne({ where: { id } [, relations] }): the mapped columns
\* of the row; buyerReviewer and sellerReviewer are no columns of Review, so a
\* loaded entity never has them.
FindReview(reviewId, withSeller) ==
    IF reviewId \notin DOMAIN reviews THEN NoEntity
    ELSE LET r == reviews[reviewId]
         IN [NoEntity EXCEPT
               !.id = r.id, !.rating = r.rating, !.comment = r.comment,
               !.reply = r.reply, !.reported = r.reported,
               !.reportReason = r.reportReason, !.reporterId = r.reporterId,
               !.createdAt = r.createdAt,
               !.seller = IF withSeller THEN LoadSeller(r.seller) ELSE NoSeller]

\* the row an entity is written as: mapped columns only; a relation that is
\* not set on the entity keeps the stored foreign key (NULL on insert)
RowOf(e, id, old) ==
    [id |-> id,
     buyer |-> IF e.buyer # NoId THEN e.buyer ELSE old.buyer,
     seller |-> IF e.seller.id # NoId THEN e.seller.id ELSE old.seller,
     rating |-> e.rating, comment |-> e.comment, reply |-> e.reply,
     reported |-> e.reported, reportReason |-> e.reportReason,
     reporterId |-> e.reporterId,
     createdAt |-> IF e.createdAt # 0 THEN e.createdAt ELSE now]

NoRow == [buyer |-> NoId, seller |-> NoId]

\* the reviewer a row records: the buyer foreign key, and no seller profile,
\* since Review has no column for a reviewing seller (seller is the reviewed one)
StoredReviewer(row) == [buyerProfile |-> row.buyer, sellerProfile |-> NoId]

\* reviewRepository.save(entity): insert when no row has the entity's id,
\* update that row otherwise
SaveReview(e) ==
    IF e.id = NoId THEN (nextId :> RowOf(e, nextId, NoRow)) @@ reviews
    ELSE IF e.id \in DOMAIN reviews
         THEN [reviews EXCEPT ![e.id] = RowOf(e, e.id, reviews[e.id])]
         ELSE (e.id :> RowOf(e, e.id, NoRow)) @@ reviews

\* reviewRepository.remove(entity)
RemoveReview(e) == [i \in DOMAIN reviews \ {e.id} |-> reviews[i]]

\* (mutation) the update without its WHERE clause: every seller is incremented
IncrementNumReviewsOfAll(seller) ==
    IF seller.id \in DOMAIN numReviews
    THEN [s \in DOMAIN numReviews |-> numReviews[s] + 1]
    ELSE numReviews

\* (mutation) the increment done in memory on the seller entity read earlier
IncrementNumReviewsInMemory(seller) ==
    IF seller.id \in DOMAIN numReviews
    THEN [numReviews EXCEPT ![seller.id] = seller.numReviews + 1]
    ELSE numReviews

\* UPDATE seller_profile SET numReviews = numReviews + 1 WHERE id = :sellerId
IncrementNumReviews(seller) ==
    IF seller.id \in DOMAIN numReviews
    THEN [numReviews EXCEPT ![seller.id] = @ + 1]
    ELSE numReviews

\* UPDATE seller_profile SET numReviews = numReviews - 1 WHERE id = :sellerId
DecrementNumReviews(seller) ==
    IF seller.id \in DOMAIN numReviews
    THEN [numReviews EXCEPT ![seller.id] = @ - 1]
    ELSE numReviews

\* ---------------------------------------------------------------- requests
InFlight(p) == pc[p] # "idle"

Quiescent == \A p \in Procs : ~InFlight(p)

CreatesInFlight == Cardinality({ p \in Procs : pc[p] = "cr_save" })

\* a request starts a call: the clock ticks
Start(p) ==
    /\ pc[p] = "idle"
    /\ now < MaxCalls
    /\ now' = now + 1

Started(c) == [c EXCEPT !.startedAt = now + 1]

\* a call returns or throws
Returned(c, r) == [call |-> c, result |-> r]

Init ==
    /\ reviews = <<>>
    /\ nextId = 1
    /\ numReviews = [s \in SellerProfileIds |-> 0]
    /\ now = 0
    /\ pc = [p \in Procs |-> "idle"]
    /\ call = [p \in Procs |-> NoCall]
    /\ local = [p \in Procs |-> NoEntity]
    /\ last = Returned(NoCall, NoResult)
    /\ created = [s \in NamedIds |-> [n |-> 0, sum |-> 0]]
    /\ authors = <<>>
    /\ removals = 0
    /\ deleted = {}

\* ------------------------------------------------------------ createReview
\* (mutation) the lower bound off by one
RatingOutOfRangeFromZero(rating) == rating < 0 \/ rating > 5

RatingOutOfRange(rating) == rating < 1 \/ rating > 5

\* (mutation) the seller lookup checked before the rating
CreateReviewErrorSellerFirst(rating, seller, reviewerUser) ==
    IF seller.id = NoId THEN ErrSeller
    ELSE IF RatingOutOfRange(rating) THEN ErrRating
    ELSE IF reviewerUser.id = NoId THEN ErrUser
    ELSE IF reviewerUser.buyerProfile = NoId /\ reviewerUser.sellerProfile = NoId
         THEN ErrProfile
    ELSE ""

\* the first failing precondition of createReview, "" when none fails
CreateReviewError(rating, seller, reviewerUser) ==
    IF RatingOutOfRange(rating) THEN ErrRating
    ELSE IF seller.id = NoId THEN ErrSeller
    ELSE IF reviewerUser.id = NoId THEN ErrUser
    ELSE IF reviewerUser.buyerProfile = NoId /\ reviewerUser.sellerProfile = NoId
         THEN ErrProfile
    ELSE ""

\* reviewRepository.create({ seller, rating, comment }) and the reviewer set on it
NewReview(seller, reviewerUser, rating, comment) ==
    [NoEntity EXCEPT
       !.seller = seller, !.rating = rating, !.comment = comment,
       !.buyerReviewer = reviewerUser.buyerProfile,
       !.sellerReviewer = IF reviewerUser.buyerProfile # NoId THEN NoId
                          ELSE reviewerUser.sellerProfile]

\* (mutation) the counter update issued before the reviewer's profile is checked
CreateReviewCountsEarly(p, sellerId, reviewerId, rating, comment) ==
    LET seller == FindSellerByUserId(sellerId)
        reviewerUser == FindUser(reviewerId)
        err == CreateReviewError(rating, seller, reviewerUser)
        c == Started([NoCall EXCEPT !.op = "createReview", !.sellerId = sellerId,
                        !.reviewerId = reviewerId, !.rating = rating,
                        !.comment = comment])
    IN /\ Start(p)
       /\ nextId + CreatesInFlight <= MaxReviews
       /\ IF err # ""
          THEN /\ last' = Returned(c, Failed(err))
               /\ numReviews' = IF err = ErrProfile THEN IncrementNumReviews(seller)
                                ELSE numReviews
               /\ UNCHANGED <<pc, call, local>>
          ELSE /\ pc' = [pc EXCEPT ![p] = "cr_save"]
               /\ call' = [call EXCEPT ![p] = c]
               /\ local' = [local EXCEPT ![p] =
                              NewReview(seller, reviewerUser, rating, comment)]
               /\ UNCHANGED <<last, numReviews>>
       /\ UNCHANGED <<reviews, nextId, created, authors, removals, deleted>>

\* createReview up to the save: the checks and the two lookups
CreateReview(p, sellerId, reviewerId, rating, comment) ==
    LET seller == FindSellerByUserId(sellerId)
        reviewerUser == FindUser(reviewerId)
        err == CreateReviewError(rating, seller, reviewerUser)
        c == Started([NoCall EXCEPT !.op = "createReview", !.sellerId = sellerId,
                        !.reviewerId = reviewerId, !.rating = rating,
                        !.comment = comment])
    IN /\ Start(p)
       /\ nextId + CreatesInFlight <= MaxReviews
       /\ IF err # ""
          THEN /\ last' = Returned(c, Failed(err))
               /\ UNCHANGED <<pc, call, local>>
          ELSE /\ pc' = [pc EXCEPT ![p] = "cr_save"]
               /\ call' = [call EXCEPT ![p] = c]
               /\ local' = [local EXCEPT ![p] =
                              NewReview(seller, reviewerUser, rating, comment)]
               /\ UNCHANGED last
       /\ UNCHANGED <<reviews, nextId, numReviews, created, authors, removals, deleted>>

\* const savedReview = await this.reviewRepository.save(review)
CreateReviewSave(p) ==
    /\ pc[p] = "cr_save"
    /\ reviews' = SaveReview(local[p])
    /\ nextId' = nextId + 1
    /\ local' = [local EXCEPT ![p] = [@ EXCEPT !.id = nextId, !.createdAt = now]]
    /\ authors' = (nextId :> [userId |-> call[p].reviewerId,
                              profileId |-> IF local[p].buyerReviewer # NoId
                                            THEN local[p].buyerReviewer
                                            ELSE local[p].sellerReviewer]) @@ authors
    /\ pc' = [pc EXCEPT ![p] = "cr_inc"]
    /\ UNCHANGED <<numReviews, now, call, last, created, removals, deleted>>

\* the numReviews + 1 update, then return savedReview
CreateReviewIncrement(p) ==
    /\ pc[p] = "cr_inc"
    /\ numReviews' = IncrementNumReviews(local[p].seller)
    /\ last' = Returned(call[p], Ok(local[p].id))
    /\ created' = [created EXCEPT ![call[p].sellerId] =
                     [n |-> @.n + 1, sum |-> @.sum + call[p].rating]]
    /\ pc' = [pc EXCEPT ![p] = "idle"]
    /\ call' = [call EXCEPT ![p] = NoCall]
    /\ local' = [local EXCEPT ![p] = NoEntity]
    /\ UNCHANGED <<reviews, nextId, now, authors, removals, deleted>>

\* ---------------------------------------------------------- getSellerStats
\* SELECT COUNT(*), AVG(rating) WHERE sellerId = :sellerId; AVG of no row is NULL
\* and Number(NULL) || 0 is 0.  averageRating is the fraction <<sum, count>>.
\* (mutation) totalReviews read from the seller's numReviews counter
SellerStatsFromCounter(sellerId) ==
    LET ids == RowsOfSeller(reviews, sellerId)
    IN [averageRating |-> IF ids = {} THEN <<0, 1>>
                          ELSE <<SumRatings(reviews, ids), Cardinality(ids)>>,
        totalReviews |-> IF sellerId \in DOMAIN numReviews
                         THEN numReviews[sellerId] ELSE 0]

\* (mutation) the average of no row is not defaulted: 0 / 0
SellerStatsNoDefault(sellerId) ==
    LET ids == RowsOfSeller(reviews, sellerId)
    IN [averageRating |-> <<SumRatings(reviews, ids), Cardinality(ids)>>,
        totalReviews |-> Cardinality(ids)]

SellerStats(sellerId) ==
    LET ids == RowsOfSeller(reviews, sellerId)
    IN [averageRating |-> IF ids = {} THEN <<0, 1>>
                          ELSE <<SumRatings(reviews, ids), Cardinality(ids)>>,
        totalReviews |-> Cardinality(ids)]

GetSellerStats(p, sellerId) ==
    /\ Start(p)
    /\ last' = Returned(Started([NoCall EXCEPT !.op = "getSellerStats",
                                                !.sellerId = sellerId]),
                        [Ok(NoId) EXCEPT !.stats = SellerStats(sellerId)])
    /\ UNCHANGED <<reviews, nextId, numReviews, pc, call, local, created, authors, removals, deleted>>

\* -------------------------------------------------------- getSellerReviews
\* ORDER BY review.createdAt DESC: every order of the ids in which createdAt
\* never rises; rows with equal createdAt come in any order
SortedOrders(ids) ==
    { s \in [1..Cardinality(ids) -> ids] :
        /\ \A j, k \in DOMAIN s : j # k => s[j] # s[k]
        /\ \A j, k \in DOMAIN s :
              j < k => reviews[s[j]].createdAt >= reviews[s[k]].createdAt }

\* .take(0) is version-dependent in the query builder: LIMIT 0, or no limit
TakeIgnored(take) == IF take = 0 THEN BOOLEAN ELSE {FALSE}

\* .skip(skip).take(take) over the ordered rows
PageOf(order, skip, take, unlimited) ==
    LET upto == IF unlimited \/ skip + take > Len(order) THEN Len(order)
                ELSE skip + take
    IN SubSeq(order, skip + 1, upto)

\* (mutation) the offset of the page after the one asked for
PageSkipNext(page, limit) == page * limit

PageSkip(page, limit) == (page - 1) * limit

\* (mutation) a full last page counts as more
HasMoreInclusive(total, page, limit) == total >= page * limit

\* hasMore: total > page * limit
HasMore(total, page, limit) == total > page * limit

\* page and limit go to skip and take as they come: no check precedes the
\* query.  getManyAndCount is one await; the count ignores skip and take.
GetSellerReviews(p, sellerId, page, limit) ==
    /\ Start(p)
    /\ LET c == Started([NoCall EXCEPT !.op = "getSellerReviews",
                                       !.sellerId = sellerId,
                                       !.page = page, !.limit = limit])
           skip == PageSkip(page, limit)
       IN IF skip < 0
          THEN last' = Returned(c, Failed(ErrQuery))
          ELSE \E order \in SortedOrders(RowsOfSeller(reviews, sellerId)),
                  unlimited \in TakeIgnored(limit) :
                 last' = Returned(c,
                     [Ok(NoId) EXCEPT
                        !.reviews = PageOf(order, skip, limit, unlimited),
                        !.total = Len(order),
                        !.hasMore = HasMore(Len(order), page, limit)])
    /\ UNCHANGED <<reviews, nextId, numReviews, pc, call, local, created, authors, removals, deleted>>

\* -------------------------------------------------------- addReplyToReview
\* (mutation) the reply check made before the seller check
AddReplyErrorConflictFirst(review, sellerId) ==
    IF review.id = NoId THEN ErrReview
    ELSE IF review.reply # NoReply THEN ErrHasReply
    ELSE IF review.seller.id = NoId THEN ErrType
    ELSE IF review.seller.id # sellerId THEN ErrNotSeller
    ELSE ""

\* (mutation) the seller check left out
AddReplyErrorNoSellerCheck(review, sellerId) ==
    IF review.id = NoId THEN ErrReview
    ELSE IF review.reply # NoReply THEN ErrHasReply
    ELSE ""

\* the first failing check of addReplyToReview, "" when none fails
AddReplyError(review, sellerId) ==
    IF review.id = NoId THEN ErrReview
    ELSE IF review.seller.id = NoId THEN ErrType
    ELSE IF review.seller.id # sellerId THEN ErrNotSeller
    ELSE IF review.reply # NoReply THEN ErrHasReply
    ELSE ""

\* addReplyToReview up to the save: findOne, the checks, the reply set in memory
AddReplyToReview(p, reviewId, sellerId, comment) ==
    LET review == FindReview(reviewId, TRUE)
        err == AddReplyError(review, sellerId)
        c == Started([NoCall EXCEPT !.op = "addReplyToReview", !.reviewId = reviewId,
                        !.sellerId = sellerId, !.comment = comment])
    IN /\ Start(p)
       /\ IF err # ""
          THEN /\ last' = Returned(c, Failed(err))
               /\ UNCHANGED <<pc, call, local>>
          ELSE /\ pc' = [pc EXCEPT ![p] = "ar_save"]
               /\ call' = [call EXCEPT ![p] = c]
               /\ local' = [local EXCEPT ![p] =
                    [review EXCEPT !.reply = <<[comment |-> comment,
                                                createdAt |-> now + 1]>>]]
               /\ UNCHANGED last
       /\ UNCHANGED <<reviews, nextId, numReviews, created, authors, removals, deleted>>

\* return this.reviewRepository.save(review)
AddReplySave(p) ==
    /\ pc[p] = "ar_save"
    /\ reviews' = SaveReview(local[p])
    /\ last' = Returned(call[p], Ok(local[p].id))
    /\ pc' = [pc EXCEPT ![p] = "idle"]
    /\ call' = [call EXCEPT ![p] = NoCall]
    /\ local' = [local EXCEPT ![p] = NoEntity]
    /\ UNCHANGED <<nextId, numReviews, now, created, authors, removals, deleted>>

\* ------------------------------------------------------------ reportReview
\* (mutation) the first report is kept
MarkReportedOnce(review, reporterId, reason) ==
    IF review.reported THEN review
    ELSE [review EXCEPT !.reported = TRUE, !.reportReason = reason,
                        !.reporterId = reporterId]

\* review.reported = true; review.reportReason = reason; review.reporterId = reporterId
MarkReported(review, reporterId, reason) ==
    [review EXCEPT !.reported = TRUE, !.reportReason = reason,
                   !.reporterId = reporterId]

\* reportReview up to the save: findOne, the check, the three fields set in memory
ReportReview(p, reviewId, reporterId, reason) ==
    LET review == FindReview(reviewId, FALSE)
        c == Started([NoCall EXCEPT !.op = "reportReview", !.reviewId = reviewId,
                        !.userId = reporterId, !.reason = reason])
    IN /\ Start(p)
       /\ IF review.id = NoId
          THEN /\ last' = Returned(c, Failed(ErrReview))
               /\ UNCHANGED <<pc, call, local>>
          ELSE /\ pc' = [pc EXCEPT ![p] = "rp_save"]
               /\ call' = [call EXCEPT ![p] = c]
               /\ local' = [local EXCEPT ![p] =
                                MarkReported(review, reporterId, reason)]
               /\ UNCHANGED last
       /\ UNCHANGED <<reviews, nextId, numReviews, created, authors, removals, deleted>>

\* return this.reviewRepository.save(review)
ReportSave(p) ==
    /\ pc[p] = "rp_save"
    /\ reviews' = SaveReview(local[p])
    /\ last' = Returned(call[p], Ok(local[p].id))
    /\ pc' = [pc EXCEPT ![p] = "idle"]
    /\ call' = [call EXCEPT ![p] = NoCall]
    /\ local' = [local EXCEPT ![p] = NoEntity]
    /\ UNCHANGED <<nextId, numReviews, now, created, authors, removals, deleted>>

\* ------------------------------------------------------------ deleteReview
\* (review.buyerReviewer && review.buyerReviewer.id !== userId) ||
\* (review.sellerReviewer && review.sellerReviewer.id !== userId)
DeleteDenied(review, userId) ==
    \/ (review.buyerReviewer # NoId /\ review.buyerReviewer # userId)
    \/ (review.sellerReviewer # NoId /\ review.sellerReviewer # userId)

\* the first failing check of deleteReview, "" when none fails
DeleteError(review, userId) ==
    IF review.id = NoId THEN ErrReview
    ELSE IF DeleteDenied(review, userId) THEN ErrNotReviewer
    ELSE ""

\* deleteReview up to the remove: findOne and the checks
DeleteReview(p, reviewId, userId) ==
    LET review == FindReview(reviewId, TRUE)
        err == DeleteError(review, userId)
        c == Started([NoCall EXCEPT !.op = "deleteReview", !.reviewId = reviewId,
                        !.userId = userId])
    IN /\ Start(p)
       /\ IF err # ""
          THEN /\ last' = Returned(c, Failed(err))
               /\ UNCHANGED <<pc, call, local>>
          ELSE /\ pc' = [pc EXCEPT ![p] = "del_remove"]
               /\ call' = [call EXCEPT ![p] = c]
               /\ local' = [local EXCEPT ![p] = review]
               /\ UNCHANGED last
       /\ UNCHANGED <<reviews, nextId, numReviews, created, authors, removals, deleted>>

\* await this.reviewRepository.remove(review)
DeleteReviewRemove(p) ==
    /\ pc[p] = "del_remove"
    /\ reviews' = RemoveReview(local[p])
    /\ removals' = IF local[p].id \in DOMAIN reviews THEN removals + 1 ELSE removals
    /\ pc' = [pc EXCEPT ![p] = "del_dec"]
    /\ UNCHANGED <<nextId, numReviews, now, call, local, last, created, authors, deleted>>

\* the numReviews - 1 update where id = review.seller.id, then return
DeleteReviewDecrement(p) ==
    /\ pc[p] = "del_dec"
    /\ IF local[p].seller.id = NoId
       THEN /\ last' = Returned(call[p], Failed(ErrType))
            /\ UNCHANGED <<numReviews, deleted>>
       ELSE /\ numReviews' = DecrementNumReviews(local[p].seller)
            /\ last' = Returned(call[p], Ok(NoId))
            /\ deleted' = deleted \cup {local[p].id}
    /\ pc' = [pc EXCEPT ![p] = "idle"]
    /\ call' = [call EXCEPT ![p] = NoCall]
    /\ local' = [local EXCEPT ![p] = NoEntity]
    /\ UNCHANGED <<reviews, nextId, now, created, authors, removals>>

\* ------------------------------------------------------------------- system
Next ==
    \E p \in Procs :
        \/ \E s \in SellerIdInputs, u \in ReviewerIdInputs, r \in RatingInputs,
              c \in ReviewComments : CreateReview(p, s, u, r, c)
        \/ CreateReviewSave(p)
        \/ CreateReviewIncrement(p)
        \/ \E s \in StatsIdInputs : GetSellerStats(p, s)
        \/ \E s \in ListIdInputs, g \in PageInputs, l \in LimitInputs :
              GetSellerReviews(p, s, g, l)
        \/ \E i \in ReviewIdInputs, s \in ReplierIdInputs, c \in ReplyComments :
              AddReplyToReview(p, i, s, c)
        \/ AddReplySave(p)
        \/ \E i \in ReviewIdInputs, u \in ReporterIdInputs, r \in Reasons :
              ReportReview(p, i, u, r)
        \/ ReportSave(p)
        \/ \E i \in ReviewIdInputs, u \in DeleterIdInputs : DeleteReview(p, i, u)
        \/ DeleteReviewRemove(p)
        \/ DeleteReviewDecrement(p)

Spec == Init /\ [][Next]_vars

\* --------------------------------------------- a store with a review in it
\* The store after createReview({sellerId: 2, reviewerId: 1, rating: 5}) ran
\* alone on the empty store, before the clock's origin: one row of seller
\* profile 1, counted.  Calls on existing reviews start from here.
StoredReview ==
    [id |-> 1, buyer |-> NoId, seller |-> 1, rating |-> 5, comment |-> "good",
     reply |-> NoReply, reported |-> FALSE, reportReason |-> NullStr,
     reporterId |-> NoId, createdAt |-> -1]

InitStored ==
    /\ reviews = (1 :> StoredReview)
    /\ nextId = 2
    /\ numReviews = [s \in SellerProfileIds |-> IF s = 1 THEN 1 ELSE 0]
    /\ now = 0
    /\ pc = [p \in Procs |-> "idle"]
    /\ call = [p \in Procs |-> NoCall]
    /\ local = [p \in Procs |-> NoEntity]
    /\ last = Returned(NoCall, NoResult)
    /\ created = [s \in NamedIds |-> IF s = 2 THEN [n |-> 1, sum |-> 5]
                                     ELSE [n |-> 0, sum |-> 0]]
    /\ authors = (1 :> [userId |-> 1, profileId |-> 1])
    /\ removals = 0
    /\ deleted = {}

\* the calls that act on an existing review
NextStored ==
    \E p \in Procs :
        \/ \E i \in ReviewIdInputs, s \in ReplierIdInputs, c \in ReplyComments :
              AddReplyToReview(p, i, s, c)
        \/ AddReplySave(p)
        \/ \E i \in ReviewIdInputs, u \in ReporterIdInputs, r \in Reasons :
              ReportReview(p, i, u, r)
        \/ ReportSave(p)
        \/ \E i \in ReviewIdInputs, u \in DeleterIdInputs : DeleteReview(p, i, u)
        \/ DeleteReviewRemove(p)
        \/ DeleteReviewDecrement(p)

SpecStored == InitStored /\ [][NextStored]_vars
\* ------------------------------------------------------------------ claims
\* In a step that starts a call (the clock ticks): the call started, and
\* whether it threw before its first store write.
StartsCall == now' = now + 1

StartedCall ==
    CHOOSE c \in {call'[p] : p \in Procs} \cup {last'.call} : c.startedAt = now'

Threw == last'.call.startedAt = now' /\ last'.result.status = "error"

CountOf(s) == Cardinality(RowsOfSeller(reviews, s))

\* C1: whenever no call is in flight, every seller's numReviews equals the
\* number of review rows that reference that seller.
C1_CounterEqualsRows ==
    Quiescent => \A s \in SellerProfileIds : numReviews[s] = CountOf(s)

\* C2: createReview inserts the row and increments numReviews in one step: a
\* step inserts a fresh review row of a seller exactly when it raises that
\* seller's numReviews.
C2_CreateIsAtomic ==
    [][\A s \in SellerProfileIds :
         (nextId' # nextId /\ nextId \in DOMAIN reviews' /\ reviews'[nextId].seller = s)
           <=> numReviews'[s] = numReviews[s] + 1]_vars

\* C3: deleteReview removes the row and decrements numReviews in one step: a
\* step removes a review row of a seller exactly when it lowers that seller's
\* numReviews.
C3_DeleteIsAtomic ==
    [][\A s \in SellerProfileIds :
         (\E i \in DOMAIN reviews \ DOMAIN reviews' : reviews[i].seller = s)
           <=> numReviews'[s] = numReviews[s] - 1]_vars

\* C4: no increment is lost: as long as nothing was deleted, a seller's
\* numReviews is the number of createReview calls for that seller that have
\* returned, however their steps interleaved.
C4_NoLostIncrement ==
    removals = 0 =>
        \A S \in SellerIdInputs :
            LET seller == FindSellerByUserId(S)
            IN seller.id # NoId => numReviews[seller.id] = created[S].n

\* two createReview calls for one seller overlapped and both returned: the one
\* that saved row 1 returned last, after the one that saved row 2
C4_Witness ==
    /\ last.call.op = "createReview" /\ last.result.status = "ok"
    /\ last.result.id = 1 /\ DOMAIN reviews = {1, 2}
    /\ reviews[1].seller = reviews[2].seller
    /\ created[last.call.sellerId].n = 2
    /\ numReviews[reviews[1].seller] = 2
    /\ removals = 0

ValidParties(c) ==
    /\ FindSellerByUserId(c.sellerId).id # NoId
    /\ FindUser(c.reviewerId).id # NoId
    /\ (FindUser(c.reviewerId).buyerProfile # NoId
          \/ FindUser(c.reviewerId).sellerProfile # NoId)

\* C5: with an existing seller and a reviewer that has a profile, createReview
\* goes on to succeed iff 1 <= rating <= 5; outside that range it throws the
\* rating error and writes nothing; every stored review has a rating in 1..5.
C5_RatingValidated ==
    /\ [](/\ \A i \in DOMAIN reviews : reviews[i].rating \in 1..5
          /\ \A p \in Procs : call[p].op = "createReview" => call[p].rating \in 1..5)
    /\ [][(StartsCall /\ StartedCall.op = "createReview" /\ ValidParties(StartedCall)) =>
            IF StartedCall.rating \in 1..5
            THEN ~Threw /\ \E p \in Procs : call'[p] = StartedCall /\ pc'[p] = "cr_save"
            ELSE /\ Threw /\ last'.result.error = ErrRating
                 /\ UNCHANGED <<reviews, nextId, numReviews, pc, call>>]_vars

\* a rating of 6 was refused for valid parties, and a review with rating 5 is stored
C5_Witness ==
    /\ last.call.op = "createReview" /\ ValidParties(last.call)
    /\ last.call.rating = 6 /\ last.result.error = ErrRating
    /\ \E i \in DOMAIN reviews : reviews[i].rating = 5

\* C6: after N >= 1 createReview calls that named S as sellerId have returned,
\* a getSellerStats(S) made while no call is in flight and nothing was deleted
\* returns totalReviews = N and averageRating = (sum of the N ratings) / N.
C6_StatsMatchCreates ==
    [][(/\ StartsCall /\ StartedCall.op = "getSellerStats"
        /\ Quiescent /\ removals = 0
        /\ created[StartedCall.sellerId].n > 0) =>
         LET N == created[StartedCall.sellerId].n
             sum == created[StartedCall.sellerId].sum
             st == last'.result.stats
         IN /\ st.totalReviews = N
            /\ st.averageRating[1] * N = sum * st.averageRating[2]]_vars

\* C7 as stated: addReplyToReview on a review whose reply is set throws the
\* conflict error, whoever calls.
C7_AlwaysConflict ==
    [][(/\ StartsCall /\ StartedCall.op = "addReplyToReview"
        /\ StartedCall.reviewId \in DOMAIN reviews
        /\ reviews[StartedCall.reviewId].reply # NoReply)
         => Threw /\ last'.result.error = ErrHasReply]_vars

\* C7 amended: addReplyToReview on a review whose reply is set never succeeds
\* and writes nothing; it throws the conflict error when the caller's sellerId
\* is the id of the review's seller, the authorization error when the review's
\* seller has another id.
C7_RepliedReviewRefuses ==
    [][(/\ StartsCall /\ StartedCall.op = "addReplyToReview"
        /\ StartedCall.reviewId \in DOMAIN reviews
        /\ reviews[StartedCall.reviewId].reply # NoReply)
         => LET seller == reviews[StartedCall.reviewId].seller
            IN /\ Threw
               /\ UNCHANGED <<reviews, numReviews, pc, call>>
               /\ seller = StartedCall.sellerId => last'.result.error = ErrHasReply
               /\ seller \notin {NoId, StartedCall.sellerId} =>
                    last'.result.error = ErrNotSeller]_vars

\* the last call was an addReplyToReview by another seller on a review that had
\* a reply (no step since the reply was saved sets one), refused as not the seller
C7_Witness ==
    /\ last.call.op = "addReplyToReview" /\ last.result.error = ErrNotSeller
    /\ last.call.reviewId \in DOMAIN reviews
    /\ reviews[last.call.reviewId].reply # NoReply
    /\ reviews[last.call.reviewId].seller # last.call.sellerId

C9_ReplyNeverOverwritten ==
    [][\A i \in DOMAIN reviews \cap DOMAIN reviews' :
         reviews[i].reply # NoReply => reviews'[i].reply = reviews[i].reply]_vars

\* the reviewer of review i is the caller u: the user who wrote it, or the id
\* of the profile createReview resolved for that user
IsReviewer(i, u) == u = authors[i].userId \/ u = authors[i].profileId

\* C10: deleteReview on an existing review by a caller who is not its reviewer
\* throws the authorization error and changes neither the rows nor numReviews.
C10_OnlyReviewerDeletes ==
    [][(/\ StartsCall /\ StartedCall.op = "deleteReview"
        /\ StartedCall.reviewId \in DOMAIN reviews
        /\ ~IsReviewer(StartedCall.reviewId, StartedCall.userId))
         => /\ Threw /\ last'.result.error = ErrNotReviewer
            /\ UNCHANGED <<reviews, numReviews, pc, call>>]_vars

\* C11: a successful deleteReview removes the row and lowers the seller's
\* numReviews by exactly 1, and a deleteReview of the same id started later
\* throws "Review not found" and changes neither the store nor a counter.
C11_DeleteIsFinal ==
    [][/\ \A p \in Procs :
            (pc[p] = "del_dec" /\ last'.call = call[p] /\ last'.result.status = "ok")
              => /\ call[p].reviewId \notin DOMAIN reviews'
                 /\ numReviews' = [numReviews EXCEPT ![local[p].seller.id] = @ - 1]
       /\ (StartsCall /\ StartedCall.op = "deleteReview"
              /\ StartedCall.reviewId \in deleted)
            => /\ Threw /\ last'.result.error = ErrReview
               /\ reviews' = reviews /\ numReviews' = numReviews]_vars

\* C12: once deleteReview has removed a review, no later state holds a review
\* with that id: an id the sequence has passed and the store does not hold
\* stays out of the store.
C12_RemovedStaysRemoved ==
    [][\A i \in 1..(nextId - 1) :
         i \notin DOMAIN reviews => i \notin DOMAIN reviews']_vars

\* C13: getSellerReviews rejects every call whose page or limit is not
\* positive: the call throws, with an error of the service's validation and
\* not a failure of the query, and returns no result.
C13_PagingValidated ==
    [][(StartsCall /\ StartedCall.op = "getSellerReviews"
          /\ (StartedCall.page <= 0 \/ StartedCall.limit <= 0))
         => Threw /\ last'.result.error # ErrQuery]_vars

\* C14: for positive page p and limit l, getSellerReviews(S, p, l) returns the
\* reviews at positions (p-1)*l + 1 .. min(p*l, total) of S's reviews in an
\* order of descending createdAt, in that order, and total is the number of
\* S's reviews.
C14_PageIsSlice ==
    [][(StartsCall /\ StartedCall.op = "getSellerReviews"
          /\ StartedCall.page > 0 /\ StartedCall.limit > 0)
         => LET c == StartedCall
                r == last'.result
                first == (c.page - 1) * c.limit + 1
                upto == IF c.page * c.limit < r.total THEN c.page * c.limit
                        ELSE r.total
            IN /\ last'.call = c /\ r.status = "ok"
               /\ r.total = CountOf(c.sellerId)
               /\ Len(r.reviews) = (IF upto < first THEN 0 ELSE upto - first + 1)
               /\ \E order \in SortedOrders(RowsOfSeller(reviews, c.sellerId)) :
                     \A k \in 1..Len(r.reviews) :
                        r.reviews[k] = order[first + k - 1]]_vars

\* a second page of one review out of two was returned
C14_Witness ==
    /\ last.call.op = "getSellerReviews"
    /\ last.call.page = 2 /\ last.call.limit = 1
    /\ last.result.status = "ok" /\ last.result.total = 2
    /\ Len(last.result.reviews) = 1

\* C15: a reportReview that returns leaves the review reported with the
\* reason and reporter of that call, whatever an earlier report stored (of two
\* reports the later one alone shows), and no reportReview of a review in the
\* store throws, reported or not.
C15_LastReportWins ==
    [][/\ \A p \in Procs :
            (pc[p] = "rp_save" /\ last'.call = call[p])
              => /\ last'.result.status = "ok"
                 /\ call[p].reviewId \in DOMAIN reviews'
                 /\ reviews'[call[p].reviewId].reported
                 /\ reviews'[call[p].reviewId].reportReason = call[p].reason
                 /\ reviews'[call[p].reviewId].reporterId = call[p].userId
       /\ (StartsCall /\ StartedCall.op = "reportReview"
              /\ StartedCall.reviewId \in DOMAIN reviews)
            => ~Threw]_vars

\* a second report has just returned and shows in the row; a request that read
\* the row between the two reports still holds the first one, which had
\* another reason and another reporter
C15_Witness ==
    /\ last.call.op = "reportReview" /\ last.result.status = "ok"
    /\ last.call.reviewId \in DOMAIN reviews
    /\ LET r == reviews[last.call.reviewId]
       IN /\ r.reported
          /\ r.reportReason = last.call.reason /\ r.reporterId = last.call.userId
          /\ \E q \in Procs :
                /\ pc[q] \in {"ar_save", "del_remove"}
                /\ local[q].id = r.id /\ local[q].reported
                /\ local[q].reportReason # r.reportReason
                /\ local[q].reporterId # r.reporterId

\* C16: every review stored by createReview records exactly one reviewer
\* identity: the buyer profile of the reviewer when they have one (also when
\* they have both), their seller profile otherwise; never both, never neither.
C16_OneReviewerRecorded ==
    \A i \in DOMAIN reviews \cap DOMAIN authors :
        LET u == Users[authors[i].userId]
            r == StoredReviewer(reviews[i])
        IN IF u.buyerProfile # NoId
           THEN r.buyerProfile = u.buyerProfile /\ r.sellerProfile = NoId
           ELSE r.buyerProfile = NoId /\ r.sellerProfile = u.sellerProfile

\* C17: what getSellerStats returns depends on the stored review rows only,
\* not on numReviews: totalReviews is the number of the seller's rows and
\* averageRating the mean of their ratings, whatever the counter holds.
C17_StatsFromRowsOnly ==
    [][(StartsCall /\ StartedCall.op = "getSellerStats")
         => LET s == StartedCall.sellerId
                st == last'.result.stats
                ids == RowsOfSeller(reviews, s)
            IN /\ last'.call = StartedCall /\ last'.result.status = "ok"
               /\ st.totalReviews = Cardinality(ids)
               /\ st.averageRating[2] # 0
               /\ ids # {} => st.averageRating[1] * Cardinality(ids)
                                = SumRatings(reviews, ids) * st.averageRating[2]]_vars

\* getSellerStats returned a count of rows that the seller's counter does not hold
C17_Witness ==
    /\ last.call.op = "getSellerStats" /\ last.result.status = "ok"
    /\ last.call.sellerId \in DOMAIN numReviews
    /\ last.result.stats.totalReviews = CountOf(last.call.sellerId)
    /\ last.result.stats.totalReviews # numReviews[last.call.sellerId]

\* C18: for a seller with no review, getSellerStats returns averageRating 0
\* and totalReviews 0.
C18_EmptyStatsAreZero ==
    [][(StartsCall /\ StartedCall.op = "getSellerStats"
          /\ RowsOfSeller(reviews, StartedCall.sellerId) = {})
         => /\ last'.call = StartedCall /\ last'.result.status = "ok"
            /\ last'.result.stats.averageRating[1] = 0
            /\ last'.result.stats.averageRating[2] # 0
            /\ last'.result.stats.totalReviews = 0]_vars

\* getSellerStats returned zeros for a seller without a review while the store
\* holds a review of another seller
C18_Witness ==
    /\ last.call.op = "getSellerStats" /\ last.result.status = "ok"
    /\ CountOf(last.call.sellerId) = 0
    /\ last.result.stats = [averageRating |-> <<0, 1>>, totalReviews |-> 0]
    /\ reviews # <<>>

\* C19: a successful createReview stores a review under an id no review has
\* or had, with the seller and rating asked for, reply NULL and reported
\* false, leaving the other rows alone; it returns that review, and it raises
\* the numReviews of that seller by exactly 1 and no other seller's.
C19_CreatePostcondition ==
    [][\A p \in Procs :
         LET s == FindSellerByUserId(call[p].sellerId).id
         IN /\ (pc[p] = "cr_save" /\ pc'[p] = "cr_inc")
                 => LET i == local'[p].id
                    IN /\ i # NoId /\ i \notin DOMAIN reviews
                       /\ i \notin DOMAIN authors /\ i \notin deleted
                       /\ DOMAIN reviews' = DOMAIN reviews \cup {i}
                       /\ \A j \in DOMAIN reviews : reviews'[j] = reviews[j]
                       /\ reviews'[i].id = i
                       /\ reviews'[i].seller = s
                       /\ reviews'[i].rating = call[p].rating
                       /\ reviews'[i].reply = NoReply
                       /\ reviews'[i].reported = FALSE
                       /\ numReviews' = numReviews
            /\ (pc[p] = "cr_inc" /\ last'.call = call[p])
                 => /\ last'.result.status = "ok"
                    /\ last'.result.id = local[p].id /\ local[p].id # NoId
                    /\ local[p].seller.id = s
                    /\ local[p].rating = call[p].rating
                    /\ local[p].reply = NoReply
                    /\ local[p].reported = FALSE
                    /\ s \in DOMAIN numReviews
                    /\ numReviews' = [numReviews EXCEPT ![s] = @ + 1]
                    /\ reviews' = reviews]_vars

\* a second createReview returned, for another seller than the first
C19_Witness ==
    /\ last.call.op = "createReview" /\ last.result.status = "ok"
    /\ last.result.id = 2 /\ DOMAIN reviews = {1, 2}
    /\ reviews[2].rating = last.call.rating
    /\ reviews[2].seller = FindSellerByUserId(last.call.sellerId).id
    /\ reviews[1].seller # reviews[2].seller
    /\ numReviews = [s \in SellerProfileIds |-> 1]

\* C20: createReview checks its preconditions in the order rating in range,
\* seller exists, user exists, reviewer has a profile, and throws the error of
\* the first that fails; it goes on exactly when none fails.
C20_FirstFailingCheck ==
    [][(StartsCall /\ StartedCall.op = "createReview")
         => LET c == StartedCall
                badRating == c.rating < 1 \/ c.rating > 5
                noSeller == \A s \in SellerProfiles : s.userId # c.sellerId
                noUser == c.reviewerId \notin DOMAIN Users
                noProfile == /\ ~noUser
                             /\ Users[c.reviewerId].buyerProfile = NoId
                             /\ Users[c.reviewerId].sellerProfile = NoId
            IN /\ badRating => Threw /\ last'.result.error = ErrRating
               /\ (~badRating /\ noSeller)
                    => Threw /\ last'.result.error = ErrSeller
               /\ (~badRating /\ ~noSeller /\ noUser)
                    => Threw /\ last'.result.error = ErrUser
               /\ (~badRating /\ ~noSeller /\ ~noUser /\ noProfile)
                    => Threw /\ last'.result.error = ErrProfile
               /\ (~badRating /\ ~noSeller /\ ~noUser /\ ~noProfile)
                    => ~Threw]_vars

\* a createReview for which every check fails threw the rating error; the
\* reviewer id names no user, so the profile check could not even be made
C20_Witness ==
    /\ last.call.op = "createReview" /\ last.result.status = "error"
    /\ last.call.rating = 0
    /\ FindSellerByUserId(last.call.sellerId).id = NoId
    /\ FindUser(last.call.reviewerId).id = NoId
    /\ last.result.error = ErrRating

\* C21: the save of addReplyToReview changes only reply, and the save of
\* reportReview only reported, reportReason and reporterId, of a review that is
\* in the store: every other column of that row, every other row and every
\* seller's numReviews are the same before and after.
C21_OnlyOwnFieldsChange ==
    [][\A p \in Procs :
         LET i == call[p].reviewId
         IN /\ (pc[p] = "ar_save" /\ last'.call = call[p] /\ i \in DOMAIN reviews)
                 => /\ i \in DOMAIN reviews'
                    /\ reviews' = [reviews EXCEPT ![i].reply = reviews'[i].reply]
                    /\ numReviews' = numReviews
            /\ (pc[p] = "rp_save" /\ last'.call = call[p] /\ i \in DOMAIN reviews)
                 => /\ i \in DOMAIN reviews'
                    /\ reviews' = [reviews EXCEPT
                                      ![i].reported = reviews'[i].reported,
                                      ![i].reportReason = reviews'[i].reportReason,
                                      ![i].reporterId = reviews'[i].reporterId]
                    /\ numReviews' = numReviews]_vars

\* C23: when an addReplyToReview and a reportReview of the same review overlap
\* and both succeed, the review afterwards has the reply of the one and the
\* report of the other: the save of the call that finishes last, made after the
\* other call saved a change it had not read, leaves that change in the row
\* next to its own.
C23_OverlapKeepsBoth ==
    [][\A p \in Procs :
         LET i == call[p].reviewId
         IN /\ (/\ pc[p] = "rp_save" /\ last'.call = call[p]
                 /\ i \in DOMAIN reviews
                 /\ local[p].reply = NoReply /\ reviews[i].reply # NoReply)
                 => /\ i \in DOMAIN reviews'
                    /\ reviews'[i].reply = reviews[i].reply
                    /\ reviews'[i].reported
                    /\ reviews'[i].reportReason = call[p].reason
                    /\ reviews'[i].reporterId = call[p].userId
            /\ (/\ pc[p] = "ar_save" /\ last'.call = call[p]
                 /\ i \in DOMAIN reviews
                 /\ ~local[p].reported /\ reviews[i].reported)
                 => /\ i \in DOMAIN reviews'
                    /\ reviews'[i].reply = local[p].reply
                    /\ reviews'[i].reply # NoReply
                    /\ reviews'[i].reported
                    /\ reviews'[i].reportReason = reviews[i].reportReason
                    /\ reviews'[i].reporterId = reviews[i].reporterId]_vars

\* C22: in the result of getSellerReviews(S, p, l) with positive p and l,
\* hasMore is true exactly when getSellerReviews(S, p + 1, l) on the same store
\* returns at least one review.
C22_HasMoreIffNextPage ==
    [][(StartsCall /\ StartedCall.op = "getSellerReviews"
          /\ StartedCall.page > 0 /\ StartedCall.limit > 0)
         => LET c == StartedCall
                nextPages ==
                    { PageOf(order, PageSkip(c.page + 1, c.limit), c.limit, FALSE) :
                        order \in SortedOrders(RowsOfSeller(reviews, c.sellerId)) }
            IN /\ last'.call = c /\ last'.result.status = "ok"
               /\ last'.result.hasMore <=> (\E r \in nextPages : r # <<>>)
               /\ last'.result.hasMore <=> (\A r \in nextPages : r # <<>>)]_vars

\* a first page of one review was returned with hasMore, a second review being
\* there for the next page
C22_Witness ==
    /\ last.call.op = "getSellerReviews" /\ last.result.status = "ok"
    /\ last.call.page = 1 /\ last.call.limit = 1
    /\ last.result.hasMore /\ last.result.total = 2
    /\ CountOf(last.call.sellerId) = 2

\* by how much the numReviews of the sellers in S were lowered in all: the
\* increments made for them less what the counters hold
RECURSIVE TotalLowered(_)
TotalLowered(S) ==
    IF S = {} THEN 0
    ELSE LET s == CHOOSE x \in S : TRUE
         IN (created[s.userId].n - numReviews[s.id]) + TotalLowered(S \ {s})

\* C24: overlapping deleteReview calls for one review lower the seller's
\* numReviews once, not once per call: the counters are never lowered by more
\* than the number of rows removed, and none becomes negative.
C24_OneDecrementPerRemovedRow ==
    /\ TotalLowered(SellerProfiles) <= removals
    /\ \A s \in SellerProfileIds : numReviews[s] >= 0

\* the errors of the precondition checks of the four writing calls
PreconditionErrors ==
    {ErrRating, ErrSeller, ErrUser, ErrProfile, ErrReview, ErrNotSeller,
     ErrHasReply, ErrNotReviewer}

\* C25: a createReview, addReplyToReview, reportReview or deleteReview that
\* throws the error of a failed precondition leaves the review store, the id
\* sequence and every seller's numReviews as they were before the call.
C25_FailedCallChangesNothing ==
    [][(/\ last' # last
        /\ last'.result.status = "error"
        /\ last'.result.error \in PreconditionErrors)
         => /\ last'.call.op \in {"createReview", "addReplyToReview",
                                   "reportReview", "deleteReview"}
            /\ reviews' = reviews
            /\ nextId' = nextId
            /\ numReviews' = numReviews]_vars

\* a second reply was refused on a stored, counted review that has a reply
C25_Witness ==
    /\ last.call.op = "addReplyToReview" /\ last.result.status = "error"
    /\ last.result.error = ErrHasReply
    /\ last.call.reviewId \in DOMAIN reviews
    /\ reviews[last.call.reviewId].reply # NoReply
    /\ numReviews[reviews[last.call.reviewId].seller] = 1

====
